---- MODULE Spec2Model ----
(***************************************************************************)
(* Verification model of the calamari OCR core:                            *)
(*   - DataRangeNormalizer._apply_single  (data_range_normalizer.py)       *)
(*   - calculate_padding, pad, CalamariGraph.__init__/call,                *)
(*     CalamariModel._extended_metric/_target_prediction/_print_evaluate/  *)
(*     predict_raw_batch  (tensorflow_model.py)                            *)
(* Each component has its own specification over a shared set of           *)
(* variables; the variables of the other components stay at their idle     *)
(* values.                                                                 *)
(***************************************************************************)
EXTENDS Integers, Sequences, FiniteSets, TLC

VARIABLES
    \* ---- DataRangeNormalizer._apply_single
    n_pc,       \* "idle" | "ready" | "returned" | "raised"
    n_dtype,    \* data.dtype of the input array
    n_ndim,     \* data.ndim of the input array (2 or 3)
    n_data,     \* input pixels: ndim 2 -> <<v, ...>>, ndim 3 -> << <<c1, c2, ..>>, ...>>
    n_out,      \* returned array (first component of the returned pair), or <<>>
    \* ---- CalamariGraph.__init__ / CalamariGraph.call (shape bookkeeping)
    g_pc,       \* "idle" | "new" | "built" | "conv" | "done" | "error"
    g_error,    \* "none" | "UnknownLayer" | "AttributeError"
    layers,     \* params.layers: the architecture specification
    img_shape,  \* <<extent of axis 1, extent of axis 2>> of inputs['img']
    img_len,    \* inputs['img_len'], one entry per sample
    conv_layers,        \* self.conv_layers: descriptors of the non-LSTM layers
    lstm_layers,        \* self.lstm_layers: descriptors of the LSTM layers
    padding,            \* <<px, py>> of compute_padding, <<0, 0>> when skipped
    net_input,          \* shape of the tensor entering the layer stack
    last_layer_output,  \* shape <<axis 1, axis 2>> of last_layer_output
    layers_by_index,    \* shapes of the recorded tap points
    shape,              \* the tracked pair (shape[0] per sample, shape[1])
    out_len,            \* outputs['out_len'], one entry per sample
    logits_time,        \* extent of axis 1 of outputs['logits']
    \* ---- CalamariGraph.call (decoding), CalamariModel metrics and reporting
    d_pc,       \* "idle" | "ready" | "done": the forward pass
    logits,     \* outputs['logits']: per sample, per timestep, a score per class
    seq_len,    \* lstm_seq_len / outputs['out_len'], one entry per sample
    decoded,    \* outputs['decoded']: the dense array, one row per sample
    gt,         \* inputs['gt']: dense padded ground truth, one row per sample
    gt_len,     \* inputs['gt_len']
    m_pc,       \* "none" | "measured": _extended_metric
    cer,        \* the 'CER' output, one entry per sample
    e_pc,       \* "none" | "printed" | "raised": _print_evaluate
    e_sample,   \* the sample _print_evaluate was called with
    pred,       \* the prediction _target_prediction returned
    pred_sentence,
    gt_sentence,
    e_cer,      \* the character error rate _print_evaluate reported
    \* ---- CalamariModel.predict_raw_batch (a generator)
    r_pc,       \* "idle" | "created" | "suspended" | "exhausted"
    r_batch,    \* per sample, what predict_on_batch returns for it: [sm, sl]
    r_out,      \* out, once predict_on_batch has run
    r_k,        \* number of loop iterations completed
    r_yielded   \* the NetworkPredictionResults yielded so far

normVars == <<n_pc, n_dtype, n_ndim, n_data, n_out>>

graphVars == <<g_pc, g_error, layers, img_shape, img_len, conv_layers, lstm_layers,
               padding, net_input, last_layer_output, layers_by_index, shape,
               out_len, logits_time>>

decodeVars == <<d_pc, logits, seq_len, decoded>>

metricVars == <<gt, gt_len, m_pc, cer, e_pc, e_sample, pred, pred_sentence, gt_sentence,
                e_cer>>

predictVars == <<r_pc, r_batch, r_out, r_k, r_yielded>>

vars == <<normVars, graphVars, decodeVars, metricVars, predictVars>>

notNormVars == <<graphVars, decodeVars, metricVars, predictVars>>
notGraphVars == <<normVars, decodeVars, metricVars, predictVars>>
notDecodeVars == <<normVars, graphVars, predictVars>>
notPredictVars == <<normVars, graphVars, decodeVars, metricVars>>

(***************************************************************************)
(* Bounds of the model.                                                    *)
(***************************************************************************)
MaxPixels == 2
MaxChannels == 3
MaxLayers == 2
MaxStride == 2
MaxDim == 3
MaxTime == 2
MaxGtLen == 2
MaxBatch == 2

(***************************************************************************)
(* Generic helpers.                                                        *)
(***************************************************************************)
RECURSIVE SumSeq(_)
SumSeq(s) == IF s = <<>> THEN 0 ELSE Head(s) + SumSeq(Tail(s))

SeqsUpTo(S, n) == UNION {[1..k -> S] : k \in 1..n}

(***************************************************************************)
(* Image Normalizer: DataRangeNormalizer._apply_single                     *)
(***************************************************************************)
HandledDtypes == {"uint8", "int8", "uint16", "int16", "float32", "float64", "bool"}
OtherDtypes == {"int32", "uint32", "int64"}
IntegerOrBoolDtypes == (HandledDtypes \ {"float32", "float64"}) \cup OtherDtypes

\* Value range of every element of an array of the given dtype.  A float
\* element is held as its number of quarters (q stands for q/4); the
\* normalizer assumes floats in [0,1].
DtypeRange(dt) ==
    CASE dt = "uint8"  -> 0..(2^8 - 1)
      [] dt = "int8"   -> (-(2^7))..(2^7 - 1)
      [] dt = "uint16" -> 0..(2^16 - 1)
      [] dt = "int16"  -> (-(2^15))..(2^15 - 1)
      [] dt \in {"float32", "float64"} -> 0..4
      [] dt = "bool"   -> {0, 1}
      [] OTHER         -> {-1, 0, 1, 70000}

\* Representative values used for the multi-element inputs.
DtypeSamples(dt) ==
    CASE dt = "uint8"  -> {0, 1, 128, 255}
      [] dt = "int8"   -> {-128, -1, 0, 127}
      [] dt = "uint16" -> {0, 255, 256, 65535}
      [] dt = "int16"  -> {-32768, -129, -1, 127, 16384, 32767}
      [] dt \in {"float32", "float64"} -> {0, 1, 2, 4}
      [] dt = "bool"   -> {0, 1}
      [] OTHER         -> {-1, 70000}

\* numpy's float -> integer astype: truncation toward zero of num/den.
TruncDiv(num, den) == IF num >= 0 THEN num \div den ELSE -((-num) \div den)

\* numpy's integer -> uint8 astype keeps the low 8 bits.
AsUint8(v) == v % (2^8)

\* line 24: ((data / 128).astype('int16') + 128).astype('uint8')
\* (ConvertInt16Wide: the variant dividing by 256, as the uint16 branch does)
ConvertInt16Wide(v) == AsUint8(TruncDiv(v, 256) + 128)
ConvertInt16(v) == AsUint8(TruncDiv(v, 128) + 128)

\* The dtype dispatch of lines 17-28, for one element.
ConvertElement(dt, v) ==
    CASE dt = "uint8"  -> v
      [] dt = "int8"   -> AsUint8(v + 128)
      [] dt = "uint16" -> AsUint8(TruncDiv(v, 256))
      [] dt = "int16"  -> ConvertInt16(v)
      [] dt \in {"float32", "float64"} -> AsUint8(TruncDiv(v * 255, 4))
      [] dt = "bool"   -> AsUint8(v) * 255

\* np.mean(data.astype('float32'), axis=2).astype('uint8') for one pixel.
MeanChannels(chs) == AsUint8(TruncDiv(SumSeq(chs), Len(chs)))

NormIdle ==
    /\ n_pc = "idle"
    /\ n_dtype = "uint8"
    /\ n_ndim = 2
    /\ n_data = <<>>
    /\ n_out = <<>>

NormInit ==
    /\ n_pc = "ready"
    /\ n_out = <<>>
    /\ n_dtype \in HandledDtypes \cup OtherDtypes
    /\ \/ \* one-element 2-D arrays: every value of the dtype
          /\ n_ndim = 2
          /\ \E v \in DtypeRange(n_dtype) : n_data = <<v>>
       \/ \* 2-D arrays of several elements
          /\ n_ndim = 2
          /\ n_data \in SeqsUpTo(DtypeSamples(n_dtype), MaxPixels)
       \/ \* 3-D arrays: one pixel of several channels
          /\ n_ndim = 3
          /\ \E chs \in SeqsUpTo(DtypeSamples(n_dtype), MaxChannels) : n_data = <<chs>>

\* _apply_single on a dtype of the if/elif chain.
ApplySingle ==
    /\ n_pc = "ready"
    /\ n_dtype \in HandledDtypes
    /\ n_out' = IF n_ndim = 3
                THEN [p \in 1..Len(n_data) |->
                        MeanChannels([c \in 1..Len(n_data[p]) |->
                                        ConvertElement(n_dtype, n_data[p][c])])]
                ELSE [p \in 1..Len(n_data) |-> ConvertElement(n_dtype, n_data[p])]
    /\ n_pc' = "returned"
    /\ UNCHANGED <<n_dtype, n_ndim, n_data>>
    /\ UNCHANGED notNormVars

\* _apply_single on any other dtype: the else branch raises.
ApplySingleRaise ==
    /\ n_pc = "ready"
    /\ n_dtype \notin HandledDtypes
    /\ n_pc' = "raised"
    /\ UNCHANGED <<n_dtype, n_ndim, n_data, n_out>>
    /\ UNCHANGED notNormVars

NormNext == ApplySingle \/ ApplySingleRaise

(***************************************************************************)
(* Architecture specification and input batches of the forward pass.       *)
(***************************************************************************)
KnownTypes == {"Convolutional", "Concat", "DilatedBlock", "TransposedConv",
               "MaxPooling", "LSTM"}

Layer(t, sx, sy, ci) == [type |-> t, stride |-> <<sx, sy>>, concat_indices |-> ci]

Convolutional == Layer("Convolutional", 1, 1, <<>>)
DilatedBlock == Layer("DilatedBlock", 1, 1, <<>>)
Recurrent == Layer("LSTM", 1, 1, <<>>)
MaxPooling(sx, sy) == Layer("MaxPooling", sx, sy, <<>>)
TransposedConv(sx, sy) == Layer("TransposedConv", sx, sy, <<>>)
Concat(ci) == Layer("Concat", 1, 1, ci)

StridesY == {1, 2}

LayerChoices ==
    {Convolutional, DilatedBlock, Recurrent, Concat(<<0>>), Concat(<<0, 1>>)}
    \cup {MaxPooling(sx, sy) : sx \in 1..MaxStride, sy \in StridesY}
    \cup {TransposedConv(sx, sy) : sx \in 1..MaxStride, sy \in StridesY}

\* Inputs named by the specification's examples, and an architecture with a
\* descriptor kind outside the recognized set.
ExampleArch == <<Convolutional, MaxPooling(2, 2), Recurrent>>
PaddingArch == <<MaxPooling(2, 2), MaxPooling(2, 2), TransposedConv(2, 2)>>
ExampleBatches ==
    { [layers |-> ExampleArch, img_shape |-> <<32, 64>>, img_len |-> <<64, 50>>],
      [layers |-> ExampleArch, img_shape |-> <<64, 32>>, img_len |-> <<64, 50>>],
      [layers |-> PaddingArch, img_shape |-> <<10, 10>>, img_len |-> <<10, 7>>],
      [layers |-> PaddingArch, img_shape |-> <<12, 12>>, img_len |-> <<12, 0>>],
      [layers |-> <<Convolutional, Layer("Dense", 1, 1, <<>>)>>,
       img_shape |-> <<2, 2>>, img_len |-> <<2, 1>>] }

(***************************************************************************)
(* calculate_padding / pad                                                 *)
(***************************************************************************)
\* the inner function of calculate_padding
\* (scaleNoWrap: the variant without the outer modulo)
scaleNoWrap(i, f) == f - (i % f)
scale(i, f) == (f - (i % f)) % f

calculate_padding(input, scaling_factor) ==
    <<scale(input[1], scaling_factor[1]), scale(input[2], scaling_factor[2])>>

\* tf.image.pad_to_bounding_box(input, 0, 0, shape[1] + px, shape[2] + py)
pad(input, pd) == <<input[1] + pd[1], input[2] + pd[2]>>

\* sx, sy of lines 133-137: product of the strides of the MaxPooling layers
RECURSIVE StrideProduct(_, _)
StrideProduct(ls, axis) ==
    IF ls = <<>> THEN 1
    ELSE (IF Head(ls).type = "MaxPooling" THEN Head(ls).stride[axis] ELSE 1)
         * StrideProduct(Tail(ls), axis)

has_concat(ls) ==
    \E i \in 1..Len(ls) : ls[i].type = "Concat" \/ ls[i].type = "TransposedConv"

(***************************************************************************)
(* Layer effects on the feature map's spatial shape and on the tracked     *)
(* logical lengths.                                                        *)
(***************************************************************************)
CeilDiv(a, b) == (a + b - 1) \div b

\* KL.MaxPool2D(strides=(stride.x, stride.y), padding="same")
\* (MaxPool2DSwapped: the variant with the two strides exchanged)
MaxPool2DSwapped(t, lp) == <<CeilDiv(t[1], lp.stride[2]), CeilDiv(t[2], lp.stride[1])>>
MaxPool2D(t, lp) == <<CeilDiv(t[1], lp.stride[1]), CeilDiv(t[2], lp.stride[2])>>

\* KL.Conv2DTranspose(strides=(stride.x, stride.y), padding="same")
Conv2DTranspose(t, lp) == <<t[1] * lp.stride[1], t[2] * lp.stride[2]>>

\* line 160: shape = (shape[0] // lp.stride.x, shape[1] // lp.stride.y)
\* (PooledShapeByY: the variant dividing the lengths by stride.y)
PooledShapeByY(sh, lp) ==
    [len |-> [i \in DOMAIN sh.len |-> sh.len[i] \div lp.stride[2]],
     feat |-> sh.feat \div lp.stride[1]]
PooledShape(sh, lp) ==
    [len |-> [i \in DOMAIN sh.len |-> sh.len[i] \div lp.stride[1]],
     feat |-> sh.feat \div lp.stride[2]]

GraphIdle ==
    /\ g_pc = "idle"
    /\ g_error = "none"
    /\ layers = <<>>
    /\ img_shape = <<1, 1>>
    /\ img_len = <<>>
    /\ conv_layers = <<>>
    /\ lstm_layers = <<>>
    /\ padding = <<0, 0>>
    /\ net_input = <<1, 1>>
    /\ last_layer_output = <<1, 1>>
    /\ layers_by_index = <<>>
    /\ shape = [len |-> <<>>, feat |-> -1]
    /\ out_len = <<>>
    /\ logits_time = 0

GraphInit ==
    /\ g_pc = "new"
    /\ g_error = "none"
    /\ \/ /\ layers \in SeqsUpTo(LayerChoices, MaxLayers)
          /\ img_shape \in (1..MaxDim) \X (1..MaxDim)
          /\ img_len \in [1..1 -> 0..img_shape[1]]
       \/ \E b \in ExampleBatches :
             /\ layers = b.layers
             /\ img_shape = b.img_shape
             /\ img_len = b.img_len
    /\ conv_layers = <<>>
    /\ lstm_layers = <<>>
    /\ padding = <<0, 0>>
    /\ net_input = img_shape
    /\ last_layer_output = img_shape
    /\ layers_by_index = <<>>
    /\ shape = [len |-> img_len, feat |-> -1]
    /\ out_len = <<>>
    /\ logits_time = 0

IsLSTM(l) == l.type = "LSTM"
NotLSTM(l) == l.type # "LSTM"

\* CalamariGraph.__init__: one transformation per descriptor, kept with it.
Construct ==
    /\ g_pc = "new"
    /\ \A i \in 1..Len(layers) : layers[i].type \in KnownTypes
    /\ conv_layers' = SelectSeq(layers, NotLSTM)
    /\ lstm_layers' = SelectSeq(layers, IsLSTM)
    /\ g_pc' = "built"
    /\ UNCHANGED <<g_error, layers, img_shape, img_len, padding, net_input,
                   last_layer_output, layers_by_index, shape, out_len, logits_time>>
    /\ UNCHANGED notGraphVars

\* CalamariGraph.__init__, line 100: a descriptor of no recognized kind.
ConstructRaise ==
    /\ g_pc = "new"
    /\ \E i \in 1..Len(layers) : layers[i].type \notin KnownTypes
    /\ g_pc' = "error"
    /\ g_error' = "UnknownLayer"
    /\ UNCHANGED <<layers, img_shape, img_len, conv_layers, lstm_layers, padding,
                   net_input, last_layer_output, layers_by_index, shape, out_len,
                   logits_time>>
    /\ UNCHANGED notGraphVars

\* call, lines 124-145: the optional padding of the input.
CallPad ==
    /\ g_pc = "built"
    /\ padding' = IF has_concat(layers)
                  THEN calculate_padding(img_shape,
                           <<StrideProduct(layers, 1), StrideProduct(layers, 2)>>)
                  ELSE <<0, 0>>
    /\ net_input' = IF has_concat(layers) THEN pad(img_shape, padding') ELSE img_shape
    /\ last_layer_output' = net_input'
    /\ shape' = [len |-> img_len, feat |-> -1]
    /\ layers_by_index' = <<>>
    /\ g_pc' = "conv"
    /\ UNCHANGED <<g_error, layers, img_shape, img_len, conv_layers, lstm_layers,
                   out_len, logits_time>>
    /\ UNCHANGED notGraphVars

\* The descriptor the loop of line 146 handles next.
NextLayer == conv_layers[Len(layers_by_index) + 1]

InLoop == g_pc = "conv" /\ Len(layers_by_index) < Len(conv_layers)

LoopFrame == UNCHANGED <<layers, img_shape, img_len, conv_layers, lstm_layers,
                         padding, net_input, out_len, logits_time, notGraphVars>>

\* lines 148-149 and 152-155: same-padded convolutions keep the spatial shape.
CallConvolutional ==
    /\ InLoop
    /\ NextLayer.type \in {"Convolutional", "DilatedBlock"}
    /\ layers_by_index' = Append(layers_by_index, last_layer_output)
    /\ UNCHANGED <<last_layer_output, shape, g_pc, g_error>>
    /\ LoopFrame

\* lines 150-151: layer is the Concatenate object, which has no concat_indices.
CallConcat ==
    /\ InLoop
    /\ NextLayer.type = "Concat"
    /\ layers_by_index' = Append(layers_by_index, last_layer_output)
    /\ g_pc' = "error"
    /\ g_error' = "AttributeError"
    /\ UNCHANGED <<last_layer_output, shape>>
    /\ LoopFrame

\* lines 156-157
CallTransposedConv ==
    /\ InLoop
    /\ NextLayer.type = "TransposedConv"
    /\ layers_by_index' = Append(layers_by_index, last_layer_output)
    /\ last_layer_output' = Conv2DTranspose(last_layer_output, NextLayer)
    /\ UNCHANGED <<shape, g_pc, g_error>>
    /\ LoopFrame

\* lines 158-160
CallMaxPooling ==
    /\ InLoop
    /\ NextLayer.type = "MaxPooling"
    /\ layers_by_index' = Append(layers_by_index, last_layer_output)
    /\ last_layer_output' = MaxPool2D(last_layer_output, NextLayer)
    /\ shape' = PooledShape(shape, NextLayer)
    /\ UNCHANGED <<g_pc, g_error>>
    /\ LoopFrame

\* lines 164-194: reshape to (batch, time, features), LSTMs, logits: axis 1 is
\* kept; out_len is the tracked shape[0].
CallFinish ==
    /\ g_pc = "conv"
    /\ Len(layers_by_index) = Len(conv_layers)
    /\ out_len' = shape.len
    /\ logits_time' = last_layer_output[1]
    /\ g_pc' = "done"
    /\ UNCHANGED <<g_error, layers, img_shape, img_len, conv_layers, lstm_layers,
                   padding, net_input, last_layer_output, layers_by_index, shape>>
    /\ UNCHANGED notGraphVars

GraphNext ==
    \/ Construct \/ ConstructRaise \/ CallPad \/ CallConvolutional \/ CallConcat
    \/ CallTransposedConv \/ CallMaxPooling \/ CallFinish

(***************************************************************************)
(* Greedy CTC decoding of the forward pass (call, lines 180-194).          *)
(***************************************************************************)
\* class indices: the blank (0) and a codec of two characters
ClassIds == {0, 1, 2}
NumClasses == Cardinality(ClassIds)

\* score vectors of one timestep, position c + 1 holding class c: a peak at
\* each class, and a tie of all classes
LogitVectors == {[p \in 1..NumClasses |-> IF p = c + 1 THEN 1 ELSE 0] : c \in ClassIds}
                \cup {[p \in 1..NumClasses |-> 0]}

\* tf.roll / np.roll along the class axis
Roll(v, shift) == [p \in 1..Len(v) |-> v[((p - 1 - shift) % Len(v)) + 1]]

\* index (from 0) of the first maximal entry
ArgMax(v) ==
    (CHOOSE p \in 1..Len(v) :
        /\ \A q \in 1..Len(v) : v[q] <= v[p]
        /\ \A q \in 1..(p - 1) : v[q] < v[p]) - 1

\* merge repeated classes, drop the blank
RECURSIVE Collapse(_, _, _)
Collapse(path, prev, blank) ==
    IF path = <<>> THEN <<>>
    ELSE (IF Head(path) # blank /\ Head(path) # prev THEN <<Head(path)>> ELSE <<>>)
         \o Collapse(Tail(path), Head(path), blank)

\* ctc.ctc_greedy_decoder for one sample: arg-max over the first
\* sequence_length timesteps, the blank being the last class
\* (GreedyWholeSequence: the variant that ignores sequence_length)
GreedyWholeSequence(rows, n) ==
    Collapse([t \in 1..Len(rows) |-> ArgMax(rows[t])], -1, NumClasses - 1)
ctc_greedy_decoder(rows, n) ==
    Collapse([t \in 1..n |-> ArgMax(rows[t])], -1, NumClasses - 1)

MaxOf(S) == CHOOSE m \in S : \A x \in S : x <= m

\* tf.sparse.to_dense(greedy_decoded, default_value=-1) + 1
\* (ToDenseUnshifted: the variant without the shift by one)
ToDenseUnshifted(sp) ==
    LET w == MaxOf({Len(sp[i]) : i \in DOMAIN sp})
    IN  [i \in DOMAIN sp |-> [j \in 1..w |-> IF j <= Len(sp[i]) THEN sp[i][j] ELSE -1]]
ToDensePlusOne(sp) ==
    LET w == MaxOf({Len(sp[i]) : i \in DOMAIN sp})
    IN  [i \in DOMAIN sp |->
            [j \in 1..w |-> (IF j <= Len(sp[i]) THEN sp[i][j] ELSE -1) + 1]]

\* lines 180-194: blank_last_logits and the dense 'decoded' output
BlankLast(lg) == [i \in DOMAIN lg |-> [t \in 1..Len(lg[i]) |-> Roll(lg[i][t], -1)]]

DecodedOf(lg, sl) ==
    ToDensePlusOne([i \in DOMAIN lg |-> ctc_greedy_decoder(BlankLast(lg)[i], sl[i])])

(***************************************************************************)
(* _extended_metric, _target_prediction, _print_evaluate                   *)
(***************************************************************************)
NonZero(x) == x # 0
NotMinusOne(x) == x # -1

\* tf.sparse.from_dense: the non-zero entries of a row, in order
sparse_from_dense(row) == SelectSeq(row, NonZero)

\* K.ctc_label_dense_to_sparse: the first label_length entries of a row
ctc_label_dense_to_sparse(row, n) == SubSeq(row, 1, n)

Min3(a, b, c) == IF a <= b /\ a <= c THEN a ELSE IF b <= c THEN b ELSE c

RECURSIVE Levenshtein(_, _)
Levenshtein(a, b) ==
    IF a = <<>> THEN Len(b)
    ELSE IF b = <<>> THEN Len(a)
    ELSE Min3(Levenshtein(Tail(a), b) + 1,
              Levenshtein(a, Tail(b)) + 1,
              Levenshtein(Tail(a), Tail(b)) + (IF Head(a) = Head(b) THEN 0 ELSE 1))

\* tf.edit_distance(hypothesis, truth, normalize=True) for one sample; the
\* value is the fraction num/den, infinity being held as 1/0
edit_distance(hyp, truth) ==
    IF truth = <<>>
    THEN (IF hyp = <<>> THEN [num |-> 0, den |-> 1] ELSE [num |-> 1, den |-> 0])
    ELSE [num |-> Levenshtein(hyp, truth), den |-> Len(truth)]

\* create_cer, lines 228-232
create_cer(dec, targets, targets_length) ==
    [i \in DOMAIN dec |->
        edit_distance(sparse_from_dense(dec[i]),
                      ctc_label_dense_to_sparse(targets[i], targets_length[i]))]

\* _target_prediction, line 247: the entries of the row that differ from -1
target_prediction(row) == SelectSeq(row, NotMinusOne)

DecodeIdle ==
    /\ d_pc = "idle"
    /\ logits = <<>>
    /\ seq_len = <<>>
    /\ decoded = <<>>

MetricIdle ==
    /\ gt = <<>>
    /\ gt_len = <<>>
    /\ m_pc = "none"
    /\ cer = <<>>
    /\ e_pc = "none"
    /\ e_sample = 0
    /\ pred = <<>>
    /\ pred_sentence = <<>>
    /\ gt_sentence = <<>>
    /\ e_cer = [num |-> 0, den |-> 0]

\* a batch of two samples of MaxTime timesteps
DecodeInit ==
    /\ d_pc = "ready"
    /\ logits \in [1..2 -> [1..MaxTime -> LogitVectors]]
    /\ seq_len \in [1..2 -> 0..MaxTime]
    /\ decoded = <<>>

\* call: the forward pass up to its returned dictionary
Decode ==
    /\ d_pc = "ready"
    /\ decoded' = DecodedOf(logits, seq_len)
    /\ d_pc' = "done"
    /\ UNCHANGED <<logits, seq_len, metricVars, notDecodeVars>>

\* call on a batch that differs from the last one in the logits of one
\* timestep of one sample
CallOtherLogits ==
    /\ d_pc = "done"
    /\ m_pc = "none" /\ e_pc = "none"
    /\ \E i \in DOMAIN logits, t \in 1..MaxTime, v \in LogitVectors :
          /\ v # logits[i][t]
          /\ logits' = [logits EXCEPT ![i][t] = v]
    /\ decoded' = DecodedOf(logits', seq_len)
    /\ UNCHANGED <<d_pc, seq_len, metricVars, notDecodeVars>>

\* call on a batch that differs from the last one in one sample's length
CallOtherLength ==
    /\ d_pc = "done"
    /\ m_pc = "none" /\ e_pc = "none"
    /\ \E i \in DOMAIN seq_len, n \in 0..MaxTime :
          /\ n # seq_len[i]
          /\ seq_len' = [seq_len EXCEPT ![i] = n]
    /\ decoded' = DecodedOf(logits, seq_len')
    /\ UNCHANGED <<d_pc, logits, metricVars, notDecodeVars>>

\* The codec of these runs: class 0 is the blank and decodes to the empty
\* string, classes 1 and 2 to the characters "a" and "b".
CodecChars == <<"a", "b">>
CodecDecode(labels) ==
    LET kept == SelectSeq(labels, NonZero)
    IN  [k \in 1..Len(kept) |-> CodecChars[kept[k]]]

\* a sample used as the batch's other row: MaxTime alternating characters with
\* their own ground truth, or a sample of length 0 with empty ground truth
Alternating(n) == [t \in 1..n |-> IF t % 2 = 1 THEN 1 ELSE 2]
Peak(c) == [p \in 1..NumClasses |-> IF p = c + 1 THEN 1 ELSE 0]
MinOf2(a, b) == IF a <= b THEN a ELSE b
SiblingSamples ==
    { [logits |-> [t \in 1..MaxTime |-> Peak(Alternating(MaxTime)[t])],
       seq_len |-> MaxTime,
       gt |-> Alternating(MaxGtLen),
       gt_len |-> MinOf2(MaxTime, MaxGtLen)],
      [logits |-> [t \in 1..MaxTime |-> Peak(0)],
       seq_len |-> 0,
       gt |-> [j \in 1..MaxGtLen |-> 0],
       gt_len |-> 0] }

\* a batch of two samples with their ground truth: one sample over all the
\* bounded inputs, in either row, beside a sibling
MetricInit ==
    /\ d_pc = "ready"
    /\ decoded = <<>>
    /\ \E lg \in [1..MaxTime -> LogitVectors], sl \in 0..MaxTime,
          g \in [1..MaxGtLen -> ClassIds], gl \in 0..MaxGtLen,
          sib \in SiblingSamples, row \in 1..2 :
          LET main == [logits |-> lg, seq_len |-> sl, gt |-> g, gt_len |-> gl]
              batch == IF row = 1 THEN <<main, sib>> ELSE <<sib, main>>
          IN  /\ logits = [i \in 1..2 |-> batch[i].logits]
              /\ seq_len = [i \in 1..2 |-> batch[i].seq_len]
              /\ gt = [i \in 1..2 |-> batch[i].gt]
              /\ gt_len = [i \in 1..2 |-> batch[i].gt_len]
    /\ m_pc = "none"
    /\ cer = <<>>
    /\ e_pc = "none"
    /\ e_sample = 0
    /\ pred = <<>>
    /\ pred_sentence = <<>>
    /\ gt_sentence = <<>>
    /\ e_cer = [num |-> 0, den |-> 0]

\* _extended_metric on the outputs of the forward pass
ExtendedMetric ==
    /\ d_pc = "done"
    /\ m_pc = "none"
    /\ cer' = create_cer(decoded, gt, gt_len)
    /\ m_pc' = "measured"
    /\ UNCHANGED <<gt, gt_len, e_pc, e_sample, pred, pred_sentence, gt_sentence, e_cer>>
    /\ UNCHANGED <<decodeVars, notDecodeVars>>

\* _print_evaluate on one sample whose ground truth sentence is not empty
PrintEvaluate ==
    /\ d_pc = "done"
    /\ e_pc = "none"
    /\ \E i \in DOMAIN decoded :
          /\ CodecDecode(gt[i]) # <<>>
          /\ e_sample' = i
          /\ pred' = target_prediction(decoded[i])
          /\ pred_sentence' = CodecDecode(pred')
          /\ gt_sentence' = CodecDecode(gt[i])
          /\ e_cer' = [num |-> Levenshtein(pred_sentence', gt_sentence'),
                       den |-> Len(gt_sentence')]
    /\ e_pc' = "printed"
    /\ UNCHANGED <<gt, gt_len, m_pc, cer>>
    /\ UNCHANGED <<decodeVars, notDecodeVars>>

\* _print_evaluate on one sample whose ground truth sentence is empty: line
\* 255 divides by len(gt_sentence) and raises ZeroDivisionError
PrintEvaluateRaise ==
    /\ d_pc = "done"
    /\ e_pc = "none"
    /\ \E i \in DOMAIN decoded :
          /\ CodecDecode(gt[i]) = <<>>
          /\ e_sample' = i
          /\ pred' = target_prediction(decoded[i])
          /\ pred_sentence' = CodecDecode(pred')
          /\ gt_sentence' = CodecDecode(gt[i])
    /\ e_pc' = "raised"
    /\ UNCHANGED <<gt, gt_len, m_pc, cer, e_cer>>
    /\ UNCHANGED <<decodeVars, notDecodeVars>>

MetricNext == Decode \/ ExtendedMetric \/ PrintEvaluate \/ PrintEvaluateRaise

DecodeNext == Decode \/ CallOtherLogits \/ CallOtherLength

(***************************************************************************)
(* predict_raw_batch                                                       *)
(***************************************************************************)
\* softmax rows as predict_on_batch returns them (blank last), in tenths: a
\* peak at the first character, a peak at the blank
ProbVectors == {<<8, 1, 1>>, <<1, 1, 8>>}

\* the pluggable decoder of these runs: greedy, the blank being class 0
CtcDecoderDecode(rows) ==
    Collapse([t \in 1..Len(rows) |-> ArgMax(rows[t])], -1, 0)

\* line 270: sm[:sl]  (WholeSoftmax: the variant that decodes all of sm)
WholeSoftmax(sm, sl) == sm
TruncateSoftmax(sm, sl) == SubSeq(sm, 1, sl)

\* the body of the loop of lines 267-275 for one zipped element
PredictionResult(s) ==
    LET sm == [t \in 1..Len(s.sm) |-> Roll(s.sm[t], 1)]
    IN  [softmax |-> sm,
         output_length |-> s.sl,
         decoded |-> CtcDecoderDecode(TruncateSoftmax(sm, s.sl))]

PredictIdle ==
    /\ r_pc = "idle"
    /\ r_batch = <<>>
    /\ r_out = <<>>
    /\ r_k = 0
    /\ r_yielded = <<>>

PredictInit ==
    /\ r_pc = "created"
    /\ \E n \in 1..MaxBatch :
          r_batch \in [1..n -> [sm : [1..MaxTime -> ProbVectors], sl : 0..MaxTime]]
    /\ r_out = <<>>
    /\ r_k = 0
    /\ r_yielded = <<>>

\* the first next(): predict_on_batch, then the first iteration up to its yield
GenFirst ==
    /\ r_pc = "created"
    /\ r_out' = r_batch
    /\ r_k' = 1
    /\ r_yielded' = <<PredictionResult(r_out'[1])>>
    /\ r_pc' = "suspended"
    /\ UNCHANGED <<r_batch, notPredictVars>>

\* a later next(): the next iteration up to its yield
GenNext ==
    /\ r_pc = "suspended"
    /\ r_k < Len(r_out)
    /\ r_k' = r_k + 1
    /\ r_yielded' = Append(r_yielded, PredictionResult(r_out[r_k']))
    /\ UNCHANGED <<r_pc, r_batch, r_out, notPredictVars>>

\* next() after the last element: the loop ends, StopIteration
GenStop ==
    /\ r_pc = "suspended"
    /\ r_k = Len(r_out)
    /\ r_pc' = "exhausted"
    /\ UNCHANGED <<r_batch, r_out, r_k, r_yielded, notPredictVars>>

PredictNext == GenFirst \/ GenNext \/ GenStop

InitNorm == NormInit /\ GraphIdle /\ DecodeIdle /\ MetricIdle /\ PredictIdle

InitGraph == GraphInit /\ NormIdle /\ DecodeIdle /\ MetricIdle /\ PredictIdle

InitDecode == DecodeInit /\ MetricIdle /\ NormIdle /\ GraphIdle /\ PredictIdle

SpecNorm == InitNorm /\ [][NormNext]_vars

SpecGraph == InitGraph /\ [][GraphNext]_vars

SpecDecode == InitDecode /\ [][DecodeNext]_vars

InitMetric == MetricInit /\ NormIdle /\ GraphIdle /\ PredictIdle

InitPredict == PredictInit /\ NormIdle /\ GraphIdle /\ DecodeIdle /\ MetricIdle

SpecPredict == InitPredict /\ [][PredictNext]_vars

SpecMetric == InitMetric /\ [][MetricNext]_vars

(***************************************************************************)
(* Properties of the padding and shape bookkeeping (SpecGraph).            *)
(***************************************************************************)
CallStarted == g_pc \in {"conv", "done"} \/ g_error = "AttributeError"

\* p is the smallest non-negative integer making d + p divisible by s.
MinimalPadding(p, d, s) ==
    /\ p \in 0..(s - 1)
    /\ (d + p) % s = 0
    /\ \A q \in 0..(p - 1) : (d + q) % s # 0
    /\ p = (s - (d % s)) % s

\* C1: for every input extent d >= 1 and combined MaxPooling stride s >= 1,
\* calculate_padding returns p = (s - d % s) % s, the smallest non-negative
\* p with (d + p) divisible by s, 0 <= p < s (d=10, s=4 gives 2; d=12, s=4
\* gives 0); the input is padded to (d_x + p_x, d_y + p_y) only when the
\* architecture holds a Concat or TransposedConv descriptor, and enters the
\* layer stack unchanged otherwise.
C1_PaddingMinimal ==
    CallStarted =>
        LET sx == StrideProduct(layers, 1)
            sy == StrideProduct(layers, 2)
            upsampling == \E i \in 1..Len(layers) :
                              layers[i].type \in {"Concat", "TransposedConv"}
        IN  /\ upsampling =>
                /\ MinimalPadding(padding[1], img_shape[1], sx)
                /\ MinimalPadding(padding[2], img_shape[2], sy)
                /\ net_input = <<img_shape[1] + padding[1], img_shape[2] + padding[2]>>
            /\ ~upsampling => net_input = img_shape
            /\ (layers = PaddingArch /\ img_shape = <<10, 10>>) => padding = <<2, 2>>
            /\ (layers = PaddingArch /\ img_shape = <<12, 12>>) => padding = <<0, 0>>

C1_Witness ==
    /\ g_pc = "done"
    /\ layers = PaddingArch
    /\ img_shape = <<10, 10>>
    /\ padding = <<2, 2>>
    /\ net_input = <<12, 12>>

\* a length integer-divided by the x-stride of each MaxPooling descriptor,
\* in architecture order
RECURSIVE DivByPoolStrides(_, _)
DivByPoolStrides(n, ls) ==
    IF ls = <<>> THEN n
    ELSE DivByPoolStrides(IF Head(ls).type = "MaxPooling"
                          THEN n \div Head(ls).stride[1] ELSE n, Tail(ls))

OutLenFollowsPooling ==
    /\ DOMAIN out_len = DOMAIN img_len
    /\ \A i \in DOMAIN img_len : out_len[i] = DivByPoolStrides(img_len[i], layers)

\* C2 as stated: the example batch of images of shape (32,64,1), i.e. a
\* tensor of extent 32 along axis 1 and 64 along axis 2, with lengths
\* [64,50], yields logits of time dimension 32 and output lengths [32,25];
\* and out_len is the supplied length integer-divided by the x-stride of every
\* MaxPooling layer.
C2_AsStated ==
    g_pc = "done" =>
        /\ OutLenFollowsPooling
        /\ (layers = ExampleArch /\ img_shape = <<32, 64>> /\ img_len = <<64, 50>>)
              => (logits_time = 32 /\ out_len = <<32, 25>>)

\* C2 (amended): the example architecture applied to a batch whose tensor
\* has extent 64 along axis 1 (the time axis) and 32 along axis 2, with
\* lengths [64,50], yields logits of time dimension 32 and output lengths
\* [32,25]; in general out_len is the supplied length integer-divided by the
\* x-stride of each MaxPooling layer in architecture order, no other layer
\* kind changing it.
C2_OutLenExample ==
    g_pc = "done" =>
        /\ OutLenFollowsPooling
        /\ (layers = ExampleArch /\ img_shape = <<64, 32>> /\ img_len = <<64, 50>>)
              => (logits_time = 32 /\ out_len = <<32, 25>>)

C2_Witness ==
    /\ g_pc = "done"
    /\ layers = ExampleArch
    /\ img_shape = <<64, 32>>
    /\ img_len = <<64, 50>>
    /\ out_len = <<32, 25>>
    /\ logits_time = 32

\* the time extent after the non-recurrent stack: ceiling-divided by each
\* MaxPooling x-stride, multiplied by each TransposedConv x-stride
RECURSIVE TimeAfter(_, _)
TimeAfter(t, ls) ==
    IF ls = <<>> THEN t
    ELSE TimeAfter(CASE Head(ls).type = "MaxPooling" ->
                            (t + Head(ls).stride[1] - 1) \div Head(ls).stride[1]
                     [] Head(ls).type = "TransposedConv" -> t * Head(ls).stride[1]
                     [] OTHER -> t,
                   Tail(ls))

\* C3: whenever every supplied length is at most the input's time extent
\* (axis 1), every returned out_len is at most the time extent of the
\* returned logits; the latter is the (padded) input extent ceiling-divided
\* by each MaxPooling x-stride and multiplied by each TransposedConv x-stride.
C3_OutLenWithinTime ==
    (g_pc = "done" /\ \A i \in DOMAIN img_len : img_len[i] <= img_shape[1]) =>
        /\ logits_time = TimeAfter(net_input[1], layers)
        /\ \A i \in DOMAIN out_len : out_len[i] <= logits_time

C3_Witness ==
    /\ g_pc = "done"
    /\ layers = <<MaxPooling(2, 1), Convolutional>>
    /\ img_shape[1] = 3
    /\ img_len = <<3>>
    /\ out_len = <<1>>
    /\ logits_time = 2

\* C5 as stated: a forward pass over an architecture whose Concat descriptors
\* reference in-range tap points (of equal spatial shape) completes without
\* error, the Concat layer concatenating exactly the referenced taps.
C5_ConcatCompletes ==
    (g_pc = "error" /\ g_error # "UnknownLayer") =>
        LET k == Len(layers_by_index)
            ci == conv_layers[k].concat_indices
        IN  \E j \in 1..Len(ci) :
                \/ ci[j] \notin 0..(k - 1)
                \/ layers_by_index[ci[j] + 1] # layers_by_index[ci[1] + 1]

(***************************************************************************)
(* Properties of the Image Normalizer (SpecNorm).                          *)
(***************************************************************************)
Abs(v) == IF v < 0 THEN -v ELSE v

\* q is v / d rounded toward zero
IsTowardZero(q, v, d) ==
    /\ d * Abs(q) <= Abs(v)
    /\ Abs(v) < d * (Abs(q) + 1)
    /\ (v < 0 => q <= 0) /\ (v >= 0 => q >= 0)

\* r is the documented image of element v of an integer or boolean source type
Documented(dt, v, r) ==
    CASE dt = "uint8"  -> r = v
      [] dt = "int8"   -> r = v + 128
      [] dt = "uint16" -> IsTowardZero(r, v, 256)
      [] dt = "int16"  -> \E k \in -1..1 : IsTowardZero(r - 128 + 256 * k, v, 128)
      [] dt = "bool"   -> r = (IF v = 1 THEN 255 ELSE 0)

DocumentedElement(dt, v) == CHOOSE r \in 0..255 : Documented(dt, v, r)

LabelsOf(row) == SelectSeq(row, NonZero)

\* sample i has the same length and the same blank-last logits on its first
\* seq_len[i] timesteps before and after the step
SameValidPart(i) ==
    /\ seq_len'[i] = seq_len[i]
    /\ \A t \in 1..seq_len[i] : Roll(logits'[i][t], -1) = Roll(logits[i][t], -1)

\* C4: sample i's decoded labels depend only on the first out_len[i]
\* timesteps of its own blank-last logits: a forward pass on a batch that
\* differs elsewhere (later timesteps, another sample's logits or length)
\* decodes sample i to the same labels; a sample of out_len 0 decodes to an
\* all-filler (0) row while its siblings decode normally.
C4_DecodeWithinLength ==
    /\ [](d_pc = "done" =>
            \A i \in DOMAIN seq_len :
                seq_len[i] = 0 => \A j \in 1..Len(decoded[i]) : decoded[i][j] = 0)
    /\ [][(d_pc = "done" /\ d_pc' = "done") =>
            \A i \in DOMAIN seq_len :
                SameValidPart(i) => LabelsOf(decoded'[i]) = LabelsOf(decoded[i])]_vars

C4_Witness ==
    /\ d_pc = "done"
    /\ seq_len = <<0, MaxTime>>
    /\ logits[1][1] = <<0, 1, 0>>
    /\ decoded[1] = <<0>>
    /\ decoded[2] = <<2>>

(***************************************************************************)
(* Properties of the metric and of the diagnostic report (SpecMetric).     *)
(***************************************************************************)
IsZeroRate(r) == r.den > 0 /\ r.num = 0

\* C8: create_cer returns 0 for a sample exactly when its decoded labels
\* (the dense row without filler) equal the first gt_len entries of its ground
\* truth; the decoded labels are in the index space of the ground truth:
\* each is a non-blank class 1..NumClasses-1 that is maximal in the unrolled
\* logits at one of the sample's valid timesteps, 0 being filler only.
C8_CerZeroIffEqual ==
    m_pc = "measured" =>
        \A i \in DOMAIN decoded :
            /\ IsZeroRate(cer[i]) <=>
                  LabelsOf(decoded[i]) = SubSeq(gt[i], 1, gt_len[i])
            /\ \A j \in 1..Len(decoded[i]) :
                  /\ decoded[i][j] \in 0..(NumClasses - 1)
                  /\ decoded[i][j] # 0 =>
                        \E t \in 1..seq_len[i] :
                            \A c \in ClassIds :
                                logits[i][t][c + 1] <= logits[i][t][decoded[i][j] + 1]
                  /\ (decoded[i][j] = 0 /\ j < Len(decoded[i])) => decoded[i][j + 1] = 0

C8_Witness ==
    /\ m_pc = "measured"
    /\ \E i \in DOMAIN decoded :
          /\ gt_len[i] = 1
          /\ LabelsOf(decoded[i]) = <<gt[i][1]>>
          /\ Len(decoded[i]) = 2
          /\ IsZeroRate(cer[i])

ReportAttempted == e_pc \in {"printed", "raised"}

\* C9 as stated: the prediction _target_prediction hands to the codec holds
\* no filler: every filler 0 of the dense row is stripped, every decoded class
\* index kept in order.
C9_PredictionWithoutFiller ==
    ReportAttempted =>
        /\ \A k \in 1..Len(pred) : pred[k] # 0
        /\ pred = LabelsOf(decoded[e_sample])

\* C6 as stated: _print_evaluate on a sample whose ground truth decodes to
\* the empty string completes and reports a rate instead of raising.
C6_EmptyGroundTruthReports ==
    (ReportAttempted /\ gt_sentence = <<>>) => e_pc = "printed"

(***************************************************************************)
(* Properties of predict_raw_batch (SpecPredict).                          *)
(***************************************************************************)
\* res is the result of sample s alone: its softmax with the blank moved to
\* the first class, its output length, and the decoding of the first
\* output_length rows of that softmax
ResultOfSample(res, s) ==
    /\ res.output_length = s.sl
    /\ Len(res.softmax) = Len(s.sm)
    /\ \A t \in 1..Len(s.sm) :
          /\ res.softmax[t][1] = s.sm[t][NumClasses]
          /\ \A c \in 2..NumClasses : res.softmax[t][c] = s.sm[t][c - 1]
    /\ res.decoded = CtcDecoderDecode([t \in 1..s.sl |-> res.softmax[t]])

\* C7: predict_raw_batch yields one result per input sample in input order,
\* the k-th result computed from the k-th sample only, its softmax truncated
\* to the sample's own output length before decoding; the sequence is finite
\* and ends after the last sample.
C7_OneResultPerSampleInOrder ==
    r_pc # "idle" =>
        /\ Len(r_yielded) <= Len(r_batch)
        /\ \A k \in 1..Len(r_yielded) : ResultOfSample(r_yielded[k], r_batch[k])
        /\ r_pc = "exhausted" => Len(r_yielded) = Len(r_batch)
        /\ (r_pc = "suspended" /\ Len(r_yielded) = Len(r_batch)) => ~ENABLED GenNext

C7_Witness ==
    /\ r_pc = "exhausted"
    /\ Len(r_yielded) = 2
    /\ r_batch[1] # r_batch[2]
    /\ r_batch[1].sl < MaxTime
    /\ r_yielded[1].decoded # CtcDecoderDecode(r_yielded[1].softmax)
    /\ r_yielded[2].decoded # <<>>

====
